---- MODULE Spec2Model ----
(***************************************************************************)
(* Model of crud_example/mormort_http_client.py: AutheticatedHTTPClient,   *)
(* the client side of the mORMot nonce handshake (login) and of the        *)
(* per-request session_signature (add_session_signature and the wrappers   *)
(* request / post / put / delete / xget).                                  *)
(*                                                                         *)
(* Strings are sequences of one-character strings, so that concatenation,  *)
(* url-encoding and the CRC-32 over their bytes are computed, not assumed. *)
(* A 32-bit word is a pair <<hi, lo>> of 16-bit halves (TLC's integers are *)
(* signed 32-bit).                                                         *)
(***************************************************************************)
EXTENDS Integers, Sequences, FiniteSets, TLC

\* ------------------------------------------------------------------------
\* Bounds of the model
\* ------------------------------------------------------------------------
MaxTicks == 2
MaxResigns == 1

\* ------------------------------------------------------------------------
\* Characters and bytes (str.encode() of the ASCII strings the model uses)
\* ------------------------------------------------------------------------
Digits == <<"0","1","2","3","4","5","6","7","8","9">>
Uppers == <<"A","B","C","D","E","F","G","H","I","J","K","L","M",
            "N","O","P","Q","R","S","T","U","V","W","X","Y","Z">>
Lowers == <<"a","b","c","d","e","f","g","h","i","j","k","l","m",
            "n","o","p","q","r","s","t","u","v","w","x","y","z">>
Others == <<<<" ", 32>>, <<"%", 37>>, <<"&", 38>>, <<"+", 43>>, <<"-", 45>>,
            <<".", 46>>, <<"/", 47>>, <<"=", 61>>, <<"?", 63>>, <<"_", 95>>,
            <<"~", 126>>>>

Range(s) == {s[i] : i \in DOMAIN s}

Chars == Range(Digits) \cup Range(Uppers) \cup Range(Lowers)
            \cup {p[1] : p \in Range(Others)}

OrdTab == [c \in Chars |->
            IF c \in Range(Digits) THEN 47 + (CHOOSE i \in DOMAIN Digits : Digits[i] = c)
            ELSE IF c \in Range(Uppers) THEN 64 + (CHOOSE i \in DOMAIN Uppers : Uppers[i] = c)
            ELSE IF c \in Range(Lowers) THEN 96 + (CHOOSE i \in DOMAIN Lowers : Lowers[i] = c)
            ELSE (CHOOSE p \in Range(Others) : p[1] = c)[2]]

Ord(c) == OrdTab[c]

\* ------------------------------------------------------------------------
\* 32-bit words as <<hi, lo>>, and their bit operations
\* ------------------------------------------------------------------------
RECURSIVE XorBits(_, _, _)
XorBits(a, b, n) ==
    IF n = 0 THEN 0
    ELSE ((a + b) % 2) + 2 * XorBits(a \div 2, b \div 2, n - 1)

XorNibTab == [a \in 0..15 |-> [b \in 0..15 |-> XorBits(a, b, 4)]]

Xor8(a, b) == 16 * XorNibTab[a \div 16][b \div 16] + XorNibTab[a % 16][b % 16]

Xor16(a, b) == 256 * Xor8(a \div 256, b \div 256) + Xor8(a % 256, b % 256)

XorW(v, w) == <<Xor16(v[1], w[1]), Xor16(v[2], w[2])>>

Shr1(w) == <<w[1] \div 2, (w[1] % 2) * 32768 + w[2] \div 2>>

Shr8(w) == <<w[1] \div 256, (w[1] % 256) * 256 + w[2] \div 256>>

AllOnes == <<65535, 65535>>

\* The reflected CRC-32 polynomial 0xEDB88320.
Poly == <<60856, 33568>>

RECURSIVE CrcBits(_, _)
CrcBits(w, n) ==
    IF n = 0 THEN w
    ELSE CrcBits(IF w[2] % 2 = 1 THEN XorW(Shr1(w), Poly) ELSE Shr1(w), n - 1)

CrcTable == [b \in 0..255 |-> CrcBits(<<0, b>>, 8)]

CrcStep(reg, c) == XorW(CrcTable[Xor8(reg[2] % 256, Ord(c))], Shr8(reg))

\* The register after bytes lo..hi of data, started from reg. The bytes are
\* taken in order; the range is halved, and the left half's register compared
\* before the right half starts, only to keep TLC's evaluation shallow.
RECURSIVE CrcUpdate(_, _, _, _)
CrcUpdate(reg, data, lo, hi) ==
    IF lo > hi THEN reg
    ELSE IF lo = hi THEN CrcStep(reg, data[lo])
    ELSE LET mid  == (lo + hi) \div 2
             left == CrcUpdate(reg, data, lo, mid)
         IN  IF left = reg THEN CrcUpdate(reg, data, mid + 1, hi)
             ELSE CrcUpdate(left, data, mid + 1, hi)

\* binascii.crc32(data, value): the running CRC-32 of data, started from
\* value.
crc32(data, value) ==
    XorW(CrcUpdate(XorW(value, AllOnes), data, 1, Len(data)), AllOnes)

\* ------------------------------------------------------------------------
\* Hexadecimal
\* ------------------------------------------------------------------------
HexDigits == <<"0","1","2","3","4","5","6","7","8","9","A","B","C","D","E","F">>

Hex4(n) == <<HexDigits[((n \div 4096) % 16) + 1], HexDigits[((n \div 256) % 16) + 1],
             HexDigits[((n \div 16) % 16) + 1], HexDigits[(n % 16) + 1]>>

Hex2(n) == <<HexDigits[((n \div 16) % 16) + 1], HexDigits[(n % 16) + 1]>>

\* Variant: no padding, as "%X" gives.
to_hex8_str_Unpadded(w) ==
    LET s == Hex4(w[1]) \o Hex4(w[2])
        first == IF \E i \in 1..7 : s[i] # "0"
                 THEN CHOOSE i \in 1..7 : s[i] # "0" /\ \A j \in 1..(i - 1) : s[j] = "0"
                 ELSE 8
    IN  SubSeq(s, first, 8)

\* utils_duh.to_hex8_str on a 32-bit word: 8 uppercase digits, zero-padded.
to_hex8_str(w) == Hex4(w[1]) \o Hex4(w[2])

\* An integer below 2^31 as a word.
Word(n) == <<n \div 65536, n % 65536>>

\* The value a string of hexadecimal digits denotes, modulo 2^32, as a word.
HexVal(c) ==
    IF c \in Range(HexDigits) THEN (CHOOSE i \in DOMAIN HexDigits : HexDigits[i] = c) - 1
    ELSE 0

RECURSIVE ParseHex16(_, _)
ParseHex16(s, i) ==
    IF i = 0 THEN 0
    ELSE LET rest == ParseHex16(s, i - 1)
         IN  (rest * 16 + HexVal(s[i])) % 65536

ParseHexWord(s) ==
    LET n  == Len(s)
        lo == IF n <= 4 THEN s ELSE SubSeq(s, n - 3, n)
        hi == IF n <= 4 THEN <<>> ELSE SubSeq(s, IF n > 8 THEN n - 7 ELSE 1, n - 4)
    IN  <<ParseHex16(hi, Len(hi)), ParseHex16(lo, Len(lo))>>

\* ------------------------------------------------------------------------
\* str.join, urllib.parse.quote_plus, urllib.parse.urlencode, dict
\* ------------------------------------------------------------------------
RECURSIVE JoinFrom(_, _, _)
JoinFrom(sep, parts, i) ==
    IF i > Len(parts) THEN <<>>
    ELSE IF i = Len(parts) THEN parts[i]
    ELSE parts[i] \o sep \o JoinFrom(sep, parts, i + 1)

\* sep.join(parts)
Join(sep, parts) == JoinFrom(sep, parts, 1)

SafeChars == Range(Digits) \cup Range(Uppers) \cup Range(Lowers)
                \cup {"_", ".", "-", "~"}

QuoteChar(c) ==
    IF c \in SafeChars THEN <<c>>
    ELSE IF c = " " THEN <<"+">>
    ELSE <<"%">> \o Hex2(Ord(c))

quote_plus(s) == Join(<<>>, [i \in DOMAIN s |-> QuoteChar(s[i])])

\* A dict is the sequence of its <<key, value>> items in insertion order.
urlencode(d) ==
    Join(<<"&">>, [i \in DOMAIN d |-> quote_plus(d[i][1]) \o <<"=">> \o quote_plus(d[i][2])])

HasKey(d, k) == \E i \in DOMAIN d : d[i][1] = k

DictGet(d, k) == d[CHOOSE i \in DOMAIN d : d[i][1] = k][2]

\* Variant: the mapping is rebuilt with the one key.
DictSet_Rebuilds(d, k, v) == << <<k, v>> >>

\* d[k] = v: an existing key keeps its place, a new one goes last.
DictSet(d, k, v) ==
    IF HasKey(d, k) THEN [i \in DOMAIN d |-> IF d[i][1] = k THEN <<k, v>> ELSE d[i]]
    ELSE Append(d, <<k, v>>)

\* ------------------------------------------------------------------------
\* Python values
\* ------------------------------------------------------------------------
None == [t |-> "None"]

Raised(e) == [t |-> "raised", error |-> e]

Returned(v) == [t |-> "returned", value |-> v]

Str(s) == [t |-> "str", s |-> s]

NoCall == [t |-> "nocall"]

Pending == [t |-> "pending"]

\* hashlib.sha256(data).hexdigest().upper(): the digest is kept symbolic, as
\* the bytes it was taken of (a collision-free digest).
sha256_hexdigest_upper(data) == <<"s","h","a","2","5","6","(">> \o data \o <<")">>

\* ------------------------------------------------------------------------
\* Session (session.py): identity, secret seed and clock
\* ------------------------------------------------------------------------
Session(result, password_hash) ==
    [t |-> "Session", id |-> result, secretSeed |-> password_hash]

id_hex(s) == to_hex8_str(Word(s.id))

private_salt_hash(s) == ParseHexWord(s.secretSeed)

\* ------------------------------------------------------------------------
\* Inputs
\* ------------------------------------------------------------------------
Hosts == {<<"l","o","c","a","l","h","o","s","t">>}
Ports == {<<"8","8","8">>}
Roots == {<<"r","o","o","t">>}
Users == {<<"a","d","m","i","n">>, <<"b","o","b">>}
PasswordHashes == {<<"0","0","0","0","A","B","1","2">>, <<"F","F","E","1","0","0","0","7">>}
ServerNonces == {<<"A","A">>, <<"0","F">>}
ClientNonces == {<<"B","B">>, <<"C","1">>}
SessionIds == {1, 305441741}
Methods == {<<"S","u","m">>}
Payloads == {"{id: 1}"}
SignatureKey == <<"s","e","s","s","i","o","n","_","s","i","g","n","a","t","u","r","e">>
ParameterChoices ==
    { <<>>,
      << <<<<"q">>, <<"x"," ","y">>>>, <<<<"a">>, <<"1">>>> >>,
      << <<SignatureKey, <<"0","0">>>>, <<<<"a">>, <<"1">>>> >> }
InitialTicks == {77}
TickStep == 2 * 64
StatusCodes == {200, 403}

\* ------------------------------------------------------------------------
\* State
\* ------------------------------------------------------------------------
VARIABLES
    root, base_url, session,        \* the client's fields
    tick,                           \* the sessions' clock (get_tick_count)
    op, pc, ret, http,              \* the current or last call: its name, where
                                    \* it stands, what it returned or raised, and
                                    \* the HTTP requests it issued
    user, password_hash,            \* login's arguments
    server_nonce, client_nonce, sha256password,     \* login's locals
    method, passed, parameters,     \* add_session_signature's arguments: the
                                    \* mapping as passed and as it is now
    resigns,                        \* times that mapping was passed again
    url_without_sesssion_signature, tick_count, nonce, crc,  \* its locals; tick_count
                                    \* is what get_tick_count() returned to it
    frames, heap                    \* callers on threads of their own: each one's
                                    \* frame of add_session_signature, and the
                                    \* mappings they pass, by identity

vars == <<root, base_url, session, tick, op, pc, ret, http,
          user, password_hash, server_nonce, client_nonce, sha256password,
          method, passed, parameters, resigns,
          url_without_sesssion_signature, tick_count, nonce, crc,
          frames, heap>>

clientVars == <<root, base_url>>

loginVars == <<user, password_hash, server_nonce, client_nonce, sha256password>>

signVars == <<method, passed, parameters, resigns,
              url_without_sesssion_signature, tick_count, nonce, crc>>

threadVars == <<frames, heap>>

NoWord == <<0, 0>>

\* No clock reading was taken.
NoReading == 0 - 1

\* AutheticatedHTTPClient.__init__
Init ==
    /\ root \in Roots
    /\ \E h \in Hosts, p \in Ports :
          base_url = <<"h","t","t","p",":","/","/">> \o h \o <<":">> \o p
    /\ session = None
    /\ tick \in InitialTicks
    /\ op = "none" /\ pc = "idle" /\ ret = NoCall /\ http = <<>>
    /\ user = <<>> /\ password_hash = <<>>
    /\ server_nonce = <<>> /\ client_nonce = <<>> /\ sha256password = <<>>
    /\ method = <<>> /\ passed = <<>> /\ parameters = <<>> /\ resigns = 0
    /\ url_without_sesssion_signature = <<>>
    /\ tick_count = NoReading /\ nonce = <<>> /\ crc = NoWord
    /\ frames = <<>> /\ heap = <<>>

\* A call starts with no frame of another call left.
ClearLogin ==
    /\ user' = <<>> /\ password_hash' = <<>>
    /\ server_nonce' = <<>> /\ client_nonce' = <<>> /\ sha256password' = <<>>

ClearSign ==
    /\ method' = <<>> /\ passed' = <<>> /\ parameters' = <<>> /\ resigns' = 0
    /\ url_without_sesssion_signature' = <<>>
    /\ tick_count' = NoReading /\ nonce' = <<>> /\ crc' = NoWord

\* ------------------------------------------------------------------------
\* login
\* ------------------------------------------------------------------------
\* GET {base_url}/{root}/Auth?Username={user}
NonceRequest(b, r, u) ==
    [verb |-> "GET", base |-> b, root |-> r, endpoint |-> "Auth", Username |-> u]

\* GET {base_url}/{root}/Auth?Username={}&Password={}&ClientNonce={}
CredentialsRequest(b, r, u, pw, cn) ==
    [verb |-> "GET", base |-> b, root |-> r, endpoint |-> "Auth",
     Username |-> u, Password |-> pw, ClientNonce |-> cn]

\* What the nonce-challenge GET can come to.
NonceReplies ==
    {[net |-> "failed"], [net |-> "ok", body |-> "not json"],
     [net |-> "ok", body |-> "no result"], [net |-> "ok", body |-> "result not a string"]}
        \cup {[net |-> "ok", body |-> "result", result |-> n] : n \in ServerNonces}

\* What the credentials GET can come to.
CredentialsReplies ==
    {[net |-> "failed"]}
        \cup {[net |-> "ok", status_code |-> c, body |-> b] :
                c \in StatusCodes, b \in {"not json", "no result"}}
        \cup {[net |-> "ok", status_code |-> c, body |-> "result", result |-> i] :
                c \in StatusCodes, i \in SessionIds}

\* Variant: a missing result defaults to the empty string.
get_server_nonce_Defaulting(reply) ==
    IF reply.net = "failed" THEN Raised("ConnectionError")
    ELSE IF reply.body = "not json" THEN Raised("JSONDecodeError")
    ELSE IF reply.body = "no result" THEN Returned(Str(<<>>))
    ELSE IF reply.body = "result not a string" THEN Returned(None)
    ELSE Returned(Str(reply.result))

\* requests.get(url).json()['result'] of __get_server_nonce__
get_server_nonce(reply) ==
    IF reply.net = "failed" THEN Raised("ConnectionError")
    ELSE IF reply.body = "not json" THEN Raised("JSONDecodeError")
    ELSE IF reply.body = "no result" THEN Raised("KeyError")
    ELSE IF reply.body = "result not a string" THEN Returned(None)
    ELSE Returned(Str(reply.result))

\* Variant: the user is left out of the digested string.
LoginHash_WithoutUser(r, sn, cn, u, pw) ==
    sha256_hexdigest_upper(Join(<<>>, <<r, sn, cn, pw>>))

\* Variant: the two nonces change places in the digested string.
LoginHash_NoncesSwapped(r, sn, cn, u, pw) ==
    sha256_hexdigest_upper(Join(<<>>, <<r, cn, sn, u, pw>>))

\* ''.join([root, server_nonce, client_nonce, user, password_hash]), digested
LoginHash(r, sn, cn, u, pw) ==
    sha256_hexdigest_upper(Join(<<>>, <<r, sn, cn, u, pw>>))

\* Variant: a status other than 200 raises (raise_for_status).
LoginFinish_RaisesOnStatus(reply, pw, cur) ==
    IF reply.net = "failed"
    THEN [ret |-> Raised("ConnectionError"), session |-> cur]
    ELSE IF reply.status_code = 200
    THEN IF reply.body = "not json"
         THEN [ret |-> Raised("JSONDecodeError"), session |-> cur]
         ELSE IF reply.body = "no result"
         THEN [ret |-> Raised("KeyError"), session |-> cur]
         ELSE [ret |-> Returned(Session(reply.result, pw)),
               session |-> Session(reply.result, pw)]
    ELSE [ret |-> Raised("HTTPError"), session |-> cur]

\* Variant: the Session is stored before the status is looked at.
LoginFinish_StoresOnAnyStatus(reply, pw, cur) ==
    IF reply.net = "failed"
    THEN [ret |-> Raised("ConnectionError"), session |-> cur]
    ELSE IF reply.body = "not json"
    THEN [ret |-> Raised("JSONDecodeError"), session |-> cur]
    ELSE IF reply.body = "no result"
    THEN [ret |-> Raised("KeyError"), session |-> cur]
    ELSE IF reply.status_code = 200
    THEN [ret |-> Returned(Session(reply.result, pw)),
          session |-> Session(reply.result, pw)]
    ELSE [ret |-> Returned(None), session |-> Session(reply.result, pw)]

\* Variant: a rejected login forgets the session the client had.
LoginFinish_ForgetsOnRejection(reply, pw, cur) ==
    IF reply.net = "failed"
    THEN [ret |-> Raised("ConnectionError"), session |-> cur]
    ELSE IF reply.status_code = 200
    THEN IF reply.body = "not json"
         THEN [ret |-> Raised("JSONDecodeError"), session |-> cur]
         ELSE IF reply.body = "no result"
         THEN [ret |-> Raised("KeyError"), session |-> cur]
         ELSE [ret |-> Returned(Session(reply.result, pw)),
               session |-> Session(reply.result, pw)]
    ELSE [ret |-> Returned(None), session |-> None]

\* The end of login, from the credentials response on: what it returns or
\* raises, and the Session it stores in self.session, if any.
LoginFinish(reply, pw, cur) ==
    IF reply.net = "failed"
    THEN [ret |-> Raised("ConnectionError"), session |-> cur]
    ELSE IF reply.status_code = 200
    THEN IF reply.body = "not json"
         THEN [ret |-> Raised("JSONDecodeError"), session |-> cur]
         ELSE IF reply.body = "no result"
         THEN [ret |-> Raised("KeyError"), session |-> cur]
         ELSE [ret |-> Returned(Session(reply.result, pw)),
               session |-> Session(reply.result, pw)]
    ELSE [ret |-> Returned(None), session |-> cur]

\* login(user, password_hash), up to the nonce-challenge GET.
LoginCall(u, pw) ==
    /\ pc = "idle"
    /\ op' = "login" /\ pc' = "nonce_wait" /\ ret' = Pending
    /\ user' = u /\ password_hash' = pw
    /\ server_nonce' = <<>> /\ client_nonce' = <<>> /\ sha256password' = <<>>
    /\ http' = <<NonceRequest(base_url, root, u)>>
    /\ ClearSign
    /\ UNCHANGED <<clientVars, threadVars, session, tick>>

\* login, from the nonce-challenge response to the credentials GET.
NonceResponse(reply, cn) ==
    /\ pc = "nonce_wait"
    /\ LET got == get_server_nonce(reply)
       IN  IF got.t = "raised"
           THEN /\ ret' = got /\ pc' = "idle"
                /\ UNCHANGED <<server_nonce, client_nonce, sha256password, http>>
           ELSE IF got.value = None
           THEN \* str.join refuses an item that is no string
                /\ ret' = Raised("TypeError") /\ pc' = "idle"
                /\ client_nonce' = cn
                /\ UNCHANGED <<server_nonce, sha256password, http>>
           ELSE /\ server_nonce' = got.value.s
                /\ client_nonce' = cn
                /\ sha256password' = LoginHash(root, got.value.s, cn, user, password_hash)
                /\ http' = Append(http, CredentialsRequest(base_url, root, user,
                                        LoginHash(root, got.value.s, cn, user, password_hash), cn))
                /\ pc' = "cred_wait"
                /\ UNCHANGED ret
    /\ UNCHANGED <<clientVars, threadVars, session, tick, op, user, password_hash, signVars>>

\* Variant: the Session is seeded with the login hash just sent.
CredentialsResponse_SeedsLoginHash(reply) ==
    /\ pc = "cred_wait"
    /\ LET end == LoginFinish(reply, sha256password, session)
       IN  /\ ret' = end.ret
           /\ session' = end.session
    /\ pc' = "idle"
    /\ UNCHANGED <<clientVars, threadVars, tick, op, http, loginVars, signVars>>

\* login, from the credentials response to its return.
CredentialsResponse(reply) ==
    /\ pc = "cred_wait"
    /\ LET end == LoginFinish(reply, password_hash, session)
       IN  /\ ret' = end.ret
           /\ session' = end.session
    /\ pc' = "idle"
    /\ UNCHANGED <<clientVars, threadVars, tick, op, http, loginVars, signVars>>

\* ------------------------------------------------------------------------
\* add_session_signature
\* ------------------------------------------------------------------------
\* Variant: the "?" segment is there also for an empty mapping.
UnsignedPath_AlwaysQuery(r, m, d) ==
    Join(<<"/">>, <<r, Join(<<"?">>, <<m, urlencode(d)>>)>>)

\* "/".join([root, "?".join([method, urlencode(parameters)]) if parameters else method])
UnsignedPath(r, m, d) ==
    Join(<<"/">>, <<r, IF d # <<>> THEN Join(<<"?">>, <<m, urlencode(d)>>) ELSE m>>)

\* Variant: the clock reading is encoded as it is, not shifted.
Nonce8_Unshifted(clock) == to_hex8_str(Word(clock))

\* Variant: the reading is shifted by 16 bits.
Nonce8_ShiftsSixteen(clock) == to_hex8_str(Word(clock \div 65536))

\* to_hex8_str(self.session.get_tick_count() >> 8)
Nonce8(clock) == to_hex8_str(Word(clock \div 256))

\* Variant: the path is checksummed first, the nonce second.
Checksum_PathFirst(n, url, seed) == crc32(n, crc32(url, seed))

\* crc32(url.encode(), crc32(nonce.encode(), private_salt_hash))
Checksum(n, url, seed) == crc32(url, crc32(n, seed))

\* Variant: the nonce comes before the session id.
Signature_NonceFirst(s, n, c) == Join(<<>>, <<n, id_hex(s), to_hex8_str(c)>>)

\* "".join([self.session.id_hex, nonce, to_hex8_str(crc)])
Signature(s, n, c) == Join(<<>>, <<id_hex(s), n, to_hex8_str(c)>>)

\* "/".join([root, "?".join([method, urlencode(parameters)])])
SignedPath(r, m, d) == Join(<<"/">>, <<r, Join(<<"?">>, <<m, urlencode(d)>>)>>)

\* Variant: without a session the unsigned path is returned as it is.
add_session_signature_Unguarded(r, s, clock, m, d) ==
    LET url == UnsignedPath(r, m, d)
    IN  IF s = None
        THEN [ret |-> Returned(Str(url)), parameters |-> d,
              url_without_sesssion_signature |-> url,
              tick_count |-> NoReading, nonce |-> <<>>, crc |-> NoWord]
        ELSE LET n  == Nonce8(clock)
                 c  == Checksum(n, url, private_salt_hash(s))
                 d2 == DictSet(d, SignatureKey, Signature(s, n, c))
             IN  [ret |-> Returned(Str(SignedPath(r, m, d2))), parameters |-> d2,
                  url_without_sesssion_signature |-> url,
                  tick_count |-> clock, nonce |-> n, crc |-> c]

\* add_session_signature(method, parameters) on a client whose fields are
\* root r and session s, at clock reading clock: its locals, the mapping as
\* it leaves it, and what it returns or raises.
add_session_signature(r, s, clock, m, d) ==
    LET url == UnsignedPath(r, m, d)
    IN  IF s = None
        THEN [ret |-> Raised("AttributeError"), parameters |-> d,
              url_without_sesssion_signature |-> url,
              tick_count |-> NoReading, nonce |-> <<>>, crc |-> NoWord]
        ELSE LET n  == Nonce8(clock)
                 c  == Checksum(n, url, private_salt_hash(s))
                 d2 == DictSet(d, SignatureKey, Signature(s, n, c))
             IN  [ret |-> Returned(Str(SignedPath(r, m, d2))), parameters |-> d2,
                  url_without_sesssion_signature |-> url,
                  tick_count |-> clock, nonce |-> n, crc |-> c]

\* The frame of a call of add_session_signature(m, d).
Signs(m, d, out) ==
    /\ out = add_session_signature(root, session, tick, m, d)
    /\ method' = m /\ passed' = d
    /\ resigns' = IF d \in ParameterChoices THEN 0 ELSE resigns + 1
    /\ parameters' = out.parameters
    /\ url_without_sesssion_signature' = out.url_without_sesssion_signature
    /\ tick_count' = out.tick_count /\ nonce' = out.nonce /\ crc' = out.crc

SignOps == {"add_session_signature", "request", "post", "put", "delete", "xget"}

\* The mappings a caller passes: a fresh one, or the one the last call signed,
\* again.
CallerMappings ==
    ParameterChoices
        \cup (IF op \in SignOps /\ resigns < MaxResigns THEN {parameters} ELSE {})

\* A direct call of add_session_signature(m, d).
AddSessionSignature(m, d) ==
    /\ pc = "idle"
    /\ op' = "add_session_signature"
    /\ \E out \in {add_session_signature(root, session, tick, m, d)} :
          /\ Signs(m, d, out)
          /\ ret' = out.ret
    /\ http' = <<>>
    /\ ClearLogin
    /\ UNCHANGED <<clientVars, threadVars, session, tick, pc>>

\* "/".join([base_url, signed path]), handed to requests with the verb.
Dispatch(verb, b, path, data) == [verb |-> verb, url |-> Join(<<"/">>, <<b, path>>), data |-> data]

\* A wrapper: sign, then dispatch; a failure to sign is the wrapper's own.
\* What requests answers is left opaque: it changes no field of the client.
Wrapper(name, verb, m, d, data) ==
    /\ pc = "idle"
    /\ op' = name
    /\ \E out \in {add_session_signature(root, session, tick, m, d)} :
          /\ Signs(m, d, out)
          /\ IF out.ret.t = "raised"
             THEN ret' = out.ret /\ http' = <<>>
             ELSE /\ http' = <<Dispatch(verb, base_url, out.ret.value.s, data)>>
                  /\ ret' = Returned([t |-> "Response"])
    /\ ClearLogin
    /\ UNCHANGED <<clientVars, threadVars, session, tick, pc>>

\* request(method, parameters)
Request(m, d) == Wrapper("request", "GET", m, d, "")

\* post(method, json_value)
Post(m, json_value) == Wrapper("post", "POST", m, <<>>, json_value)

\* put(method, json_value)
Put(m, json_value) == Wrapper("put", "PUT", m, <<>>, json_value)

\* delete(method)
Delete(m) == Wrapper("delete", "DELETE", m, <<>>, "")

\* xget(data)
XGet(data) == Wrapper("xget", "GET", <<>>, <<>>, data)

\* The clock advances.
Tick ==
    /\ \E t0 \in InitialTicks : tick + TickStep <= t0 + MaxTicks * TickStep
    /\ tick' = tick + TickStep
    /\ UNCHANGED <<clientVars, threadVars, session, op, pc, ret, http, loginVars, signVars>>

Next ==
    \/ \E u \in Users, pw \in PasswordHashes : LoginCall(u, pw)
    \/ \E reply \in NonceReplies, cn \in ClientNonces : NonceResponse(reply, cn)
    \/ \E reply \in CredentialsReplies : CredentialsResponse(reply)
    \/ \E m \in Methods, d \in CallerMappings : AddSessionSignature(m, d)
    \/ \E m \in Methods, d \in CallerMappings : Request(m, d)
    \/ \E m \in Methods, j \in Payloads : Post(m, j)
    \/ \E m \in Methods, j \in Payloads : Put(m, j)
    \/ \E m \in Methods : Delete(m)
    \/ \E j \in Payloads : XGet(j)
    \/ Tick

Spec == Init /\ [][Next]_vars

\* ------------------------------------------------------------------------
\* to_hex8_str on its own: a word is drawn (held in crc, the local of that
\* type) and encoded (into nonce, the local the encoding of line 98 goes to)
\* ------------------------------------------------------------------------
HexHalves == {0, 1, 9, 10, 15, 16, 255, 256, 4095, 4096, 65534, 65535}

\* Words over the whole unsigned 32-bit range.
HexInputs == {<<hi, lo>> : hi \in HexHalves, lo \in HexHalves}

HexInit ==
    /\ root \in Roots
    /\ \E h \in Hosts, p \in Ports :
          base_url = <<"h","t","t","p",":","/","/">> \o h \o <<":">> \o p
    /\ session = None
    /\ tick \in InitialTicks
    /\ op = "none" /\ pc = "idle" /\ ret = NoCall /\ http = <<>>
    /\ user = <<>> /\ password_hash = <<>>
    /\ server_nonce = <<>> /\ client_nonce = <<>> /\ sha256password = <<>>
    /\ method = <<>> /\ passed = <<>> /\ parameters = <<>> /\ resigns = 0
    /\ url_without_sesssion_signature = <<>>
    /\ tick_count = NoReading /\ nonce = <<>>
    /\ crc \in HexInputs
    /\ frames = <<>> /\ heap = <<>>

\* to_hex8_str(crc)
EncodeHex8 ==
    /\ op = "none"
    /\ op' = "to_hex8_str"
    /\ nonce' = to_hex8_str(crc)
    /\ UNCHANGED <<clientVars, threadVars, session, tick, pc, ret, http, loginVars, method, passed,
                   parameters, resigns, url_without_sesssion_signature, tick_count, crc>>

HexNext == EncodeHex8

HexSpec == HexInit /\ [][HexNext]_vars

\* ------------------------------------------------------------------------
\* The login hash on its own: lines 60-68 on five strings drawn, some of them
\* prefixes and suffixes of others
\* ------------------------------------------------------------------------
HashRoots == {<<"r">>, <<"r","A">>}
HashServerNonces == {<<"A">>, <<"A","B">>, <<"B">>}
HashClientNonces == {<<"B">>, <<"C">>, <<"B","C">>}
HashUsers == {<<"u">>, <<"C","u">>}
HashPasswordHashes == {<<"0","1">>, <<"u","0","1">>}

HashTuples ==
    HashRoots \X HashServerNonces \X HashClientNonces \X HashUsers \X HashPasswordHashes

HashInit ==
    /\ root \in HashRoots
    /\ \E h \in Hosts, p \in Ports :
          base_url = <<"h","t","t","p",":","/","/">> \o h \o <<":">> \o p
    /\ session = None
    /\ tick \in InitialTicks
    /\ op = "none" /\ pc = "idle" /\ ret = NoCall /\ http = <<>>
    /\ user \in HashUsers /\ password_hash \in HashPasswordHashes
    /\ server_nonce \in HashServerNonces /\ client_nonce \in HashClientNonces
    /\ sha256password = <<>>
    /\ method = <<>> /\ passed = <<>> /\ parameters = <<>> /\ resigns = 0
    /\ url_without_sesssion_signature = <<>>
    /\ tick_count = NoReading /\ nonce = <<>> /\ crc = NoWord
    /\ frames = <<>> /\ heap = <<>>

\* sha256password = hashlib.sha256(''.join([...]).encode()).hexdigest().upper()
ComputeLoginHash ==
    /\ op = "none"
    /\ op' = "LoginHash"
    /\ sha256password' = LoginHash(root, server_nonce, client_nonce, user, password_hash)
    /\ UNCHANGED <<clientVars, threadVars, session, tick, pc, ret, http, user, password_hash,
                   server_nonce, client_nonce, signVars>>

HashNext == ComputeLoginHash

HashSpec == HashInit /\ [][HashNext]_vars

\* ------------------------------------------------------------------------
\* add_session_signature statement by statement, for callers on threads of
\* their own. A step is one statement, or the part of one that reads or writes
\* what the callers share: self.session, the clock, a mapping. One statement is
\* taken not to be interleaved within itself.
\* ------------------------------------------------------------------------
Callers == {"A", "B"}

\* What the main thread's variables hold in the steps of the other threads.
mainVars == <<clientVars, tick, op, pc, ret, http, loginVars, signVars>>

\* The frame of a call add_session_signature(m, the mapping at heap[i]), whose
\* items at the call are d. session98, session100 and session104 are the values
\* of self.session the lines 98, 100 and 104 read; sent is the mapping as line
\* 110 encoded it.
Called(m, i, d) ==
    [pc |-> "L93", method |-> m, map |-> i, passed |-> d,
     url_without_sesssion_signature |-> <<>>,
     session98 |-> None, session100 |-> None, session104 |-> None,
     tick_count |-> NoReading, nonce |-> <<>>, crc |-> NoWord,
     sent |-> <<>>, ret |-> Pending]

\* Lines 93-96: the unsigned path, of the mapping as it is now.
BuildUnsignedPath(c) ==
    /\ c \in DOMAIN frames /\ frames[c].pc = "L93"
    /\ LET f == frames[c]
       IN  frames' = [frames EXCEPT ![c] =
                        [f EXCEPT !.pc = "L98",
                                  !.url_without_sesssion_signature =
                                      UnsignedPath(root, f.method, heap[f.map])]]
    /\ UNCHANGED <<mainVars, session, heap>>

\* Line 98: self.session is read, and its clock; without a session the call
\* ends in an AttributeError.
ReadClock(c) ==
    /\ c \in DOMAIN frames /\ frames[c].pc = "L98"
    /\ LET f == frames[c]
       IN  frames' = [frames EXCEPT ![c] =
                        IF session = None
                        THEN [f EXCEPT !.pc = "done", !.ret = Raised("AttributeError")]
                        ELSE [f EXCEPT !.pc = "L100", !.session98 = session,
                                       !.tick_count = tick, !.nonce = Nonce8(tick)]]
    /\ UNCHANGED <<mainVars, session, heap>>

\* Variant: the checksum starts from 0, not from the session's seed.
ChecksumSteps_Unseeded(c) ==
    /\ c \in DOMAIN frames /\ frames[c].pc = "L100"
    /\ LET f == frames[c]
       IN  frames' = [frames EXCEPT ![c] =
                        [f EXCEPT !.pc = "L103", !.session100 = session,
                                  !.crc = Checksum(f.nonce, f.url_without_sesssion_signature,
                                                   NoWord)]]
    /\ UNCHANGED <<mainVars, session, heap>>

\* Lines 100-101: self.session is read again, for its seed; the two crc32.
ChecksumSteps(c) ==
    /\ c \in DOMAIN frames /\ frames[c].pc = "L100"
    /\ LET f == frames[c]
       IN  frames' = [frames EXCEPT ![c] =
                        [f EXCEPT !.pc = "L103", !.session100 = session,
                                  !.crc = Checksum(f.nonce, f.url_without_sesssion_signature,
                                                   private_salt_hash(session))]]
    /\ UNCHANGED <<mainVars, session, heap>>

\* Lines 103-106: self.session is read a third time, for its id; the signature
\* is stored in the mapping.
StoreSignature(c) ==
    /\ c \in DOMAIN frames /\ frames[c].pc = "L103"
    /\ LET f == frames[c]
       IN  /\ heap' = [heap EXCEPT ![f.map] =
                         DictSet(heap[f.map], SignatureKey, Signature(session, f.nonce, f.crc))]
           /\ frames' = [frames EXCEPT ![c] =
                           [f EXCEPT !.pc = "L108", !.session104 = session]]
    /\ UNCHANGED <<mainVars, session>>

\* Lines 108-111: the signed path, of the mapping as it is now.
ReturnSignedPath(c) ==
    /\ c \in DOMAIN frames /\ frames[c].pc = "L108"
    /\ LET f == frames[c]
       IN  frames' = [frames EXCEPT ![c] =
                        [f EXCEPT !.pc = "done", !.sent = heap[f.map],
                                  !.ret = Returned(Str(SignedPath(root, f.method,
                                                                  heap[f.map])))]]
    /\ UNCHANGED <<mainVars, session, heap>>

\* Logins that were granted: user, password hash, the two nonces, session id.
GrantedLogins ==
    { <<u, pw, sn, cn, i>> \in
          Users \X PasswordHashes \X ServerNonces \X ClientNonces \X SessionIds :
        /\ sn = <<"A","A">> /\ cn = <<"B","B">>
        /\ (u = <<"b","o","b">>) <=> (pw[1] = "F")
        /\ (pw[1] = "F") <=> (i = 1) }

\* The client as a granted login leaves it.
Authenticated(g) ==
    /\ root \in Roots
    /\ \E h \in Hosts, p \in Ports :
          base_url = <<"h","t","t","p",":","/","/">> \o h \o <<":">> \o p
    /\ tick \in InitialTicks
    /\ session = Session(g[5], g[2])
    /\ op = "login" /\ pc = "idle" /\ ret = Returned(session)
    /\ user = g[1] /\ password_hash = g[2]
    /\ server_nonce = g[3] /\ client_nonce = g[4]
    /\ sha256password = LoginHash(root, g[3], g[4], g[1], g[2])
    /\ http = <<NonceRequest(base_url, root, g[1]),
                CredentialsRequest(base_url, root, g[1], sha256password, g[4])>>
    /\ method = <<>> /\ passed = <<>> /\ parameters = <<>> /\ resigns = 0
    /\ url_without_sesssion_signature = <<>>
    /\ tick_count = NoReading /\ nonce = <<>> /\ crc = NoWord

\* Two callers about to sign on an authenticated client: with one mapping
\* between them, or with a mapping each.
ConcInit ==
    /\ \E g \in GrantedLogins : Authenticated(g)
    /\ \E m \in Methods, d1 \in ParameterChoices, d2 \in ParameterChoices :
          \/ /\ d1 = d2
             /\ heap = <<d1>>
             /\ frames = [c \in Callers |-> Called(m, 1, d1)]
          \/ /\ heap = <<d1, d2>>
             /\ frames = [c \in Callers |->
                            IF c = "A" THEN Called(m, 1, d1) ELSE Called(m, 2, d2)]

ConcNext ==
    \/ \E c \in Callers : BuildUnsignedPath(c)
    \/ \E c \in Callers : ReadClock(c)
    \/ \E c \in Callers : ChecksumSteps(c)
    \/ \E c \in Callers : StoreSignature(c)
    \/ \E c \in Callers : ReturnSignedPath(c)
    \/ Tick

ConcSpec == ConcInit /\ [][ConcNext]_vars

\* One caller about to sign on an authenticated client, while the main thread
\* logs in again.
ReloginInit ==
    /\ \E g \in GrantedLogins : Authenticated(g)
    /\ \E m \in Methods, d \in ParameterChoices :
          /\ heap = <<d>>
          /\ frames = [c \in {"A"} |-> Called(m, 1, d)]

ReloginNext ==
    \/ \E u \in Users, pw \in PasswordHashes : LoginCall(u, pw)
    \/ \E reply \in NonceReplies, cn \in ClientNonces : NonceResponse(reply, cn)
    \/ \E reply \in CredentialsReplies : CredentialsResponse(reply)
    \/ \E c \in Callers : BuildUnsignedPath(c)
    \/ \E c \in Callers : ReadClock(c)
    \/ \E c \in Callers : ChecksumSteps(c)
    \/ \E c \in Callers : StoreSignature(c)
    \/ \E c \in Callers : ReturnSignedPath(c)

ReloginSpec == ReloginInit /\ [][ReloginNext]_vars

\* ------------------------------------------------------------------------
\* Properties
\* ------------------------------------------------------------------------
ReplyRejects(reply) == reply.net = "ok" /\ reply.status_code # 200

ReplyGrants(reply) ==
    reply.net = "ok" /\ reply.status_code = 200 /\ reply.body = "result"

ReplyGrantsNothing(reply) ==
    reply.net = "ok" /\ reply.status_code = 200 /\ reply.body # "result"

\* C1: whenever the credentials response has a status other than 200, login
\* returns None and raises nothing.
C1_RejectedLoginReturnsNone ==
    [][\A reply \in CredentialsReplies :
          (ReplyRejects(reply) /\ CredentialsResponse(reply)) => ret' = Returned(None)]_vars

C1_Witness == op = "login" /\ pc = "idle" /\ ret = Returned(None)

\* C2: on status 200 with a session identifier in result, login makes a
\* Session of that result and of the password_hash it was called with (not of
\* the login hash it sent), stores it in self.session and returns it.
C2_GrantedLoginStoresSession ==
    [][\A reply \in CredentialsReplies :
          (ReplyGrants(reply) /\ CredentialsResponse(reply)) =>
              /\ session' = [t |-> "Session", id |-> reply.result,
                             secretSeed |-> password_hash]
              /\ session'.secretSeed # sha256password
              /\ ret' = Returned(session')]_vars

C2_Witness ==
    /\ op = "login" /\ pc = "idle" /\ ret.t = "returned" /\ ret.value # None
    /\ session = ret.value /\ session.secretSeed = password_hash

\* C3: on status 200 with no usable session identifier in the body, login
\* returns None and leaves self.session as it was.
C3_GrantWithoutResultReturnsNone ==
    [][\A reply \in CredentialsReplies :
          (ReplyGrantsNothing(reply) /\ CredentialsResponse(reply)) =>
              ret' = Returned(None) /\ session' = session]_vars

\* C4: when the nonce-challenge fetch fails (transport failure, body not JSON,
\* no result field), login ends with an error, the credentials request is
\* never issued and self.session is unchanged.
NonceFetchFails(reply) ==
    reply.net = "failed" \/ reply.body \in {"not json", "no result"}

C5_HandshakeInOrder ==
    [][/\ \A reply \in NonceReplies, cn \in ClientNonces :
            (reply.net = "ok" /\ reply.body = "result" /\ NonceResponse(reply, cn)) =>
                /\ http = <<NonceRequest(base_url, root, user)>>
                /\ client_nonce = <<>>
                /\ http' = <<NonceRequest(base_url, root, user),
                             [verb |-> "GET", base |-> base_url, root |-> root,
                              endpoint |-> "Auth", Username |-> user,
                              Password |-> sha256_hexdigest_upper(
                                  root \o reply.result \o cn \o user \o password_hash),
                              ClientNonce |-> cn]>>
       /\ (pc = "nonce_wait" => Len(http) = 1 /\ Len(http') <= 2)
       /\ (pc = "cred_wait" => Len(http) = 2 /\ http' = http)
       /\ (session' # session => pc = "cred_wait" /\ pc' = "idle")]_vars

C5_Witness ==
    /\ op = "login" /\ pc = "idle" /\ Len(http) = 2
    /\ ret.t = "returned" /\ ret.value # None
    /\ http[2].Password =
          sha256_hexdigest_upper(root \o server_nonce \o client_nonce \o user \o password_hash)

\* C6: the client starts with no session; self.session holds None or one
\* Session; it leaves None only in a login step that takes a credentials
\* response of status 200; once it holds a Session it never holds None again,
\* whatever is called.
C6_NeverBackToUnauthenticated ==
    /\ session = None
    /\ [](session = None \/ session.t = "Session")
    /\ [][/\ (session # None => session' # None)
          /\ (session' # session =>
                \E reply \in CredentialsReplies :
                    ReplyGrants(reply) /\ CredentialsResponse(reply))]_vars

C6_Witness ==
    session # None /\ op = "login" /\ pc = "idle" /\ ret = Returned(None)

\* C7: signing on a client with no session raises; the mapping passed is as it
\* was, and a wrapper dispatches no HTTP request.
C7_SigningWithoutSessionRaises ==
    (op \in SignOps /\ session = None) =>
        /\ ret.t = "raised"
        /\ parameters = passed
        /\ http = <<>>

C7_Witness ==
    /\ op = "request" /\ session = None /\ ret.t = "raised"
    /\ passed # <<>> /\ ~HasKey(parameters, SignatureKey)

\* A call that signed: a sign operation that returned.
Signed == op \in SignOps /\ ret.t = "returned"

\* The signed path the call produced: what add_session_signature returned,
\* or what follows base_url and "/" in the URL a wrapper dispatched.
SignedPathOut ==
    IF op = "add_session_signature" THEN ret.value.s
    ELSE SubSeq(http[1].url, Len(base_url) + 2, Len(http[1].url))

\* C8: the path checksummed is root/method for an empty mapping and
\* root/method?urlencode(mapping) otherwise; the signed path is always
\* root/method?urlencode(mapping with session_signature), with the "?" and
\* exactly one session_signature item.
C8_PathShapes ==
    Signed =>
        /\ url_without_sesssion_signature =
              (IF passed = <<>> THEN root \o <<"/">> \o method
               ELSE root \o <<"/">> \o method \o <<"?">> \o urlencode(passed))
        /\ SignedPathOut = root \o <<"/">> \o method \o <<"?">> \o urlencode(parameters)
        /\ Cardinality({i \in DOMAIN parameters : parameters[i][1] = SignatureKey}) = 1
        /\ \A i \in DOMAIN passed :
              passed[i][1] # SignatureKey => parameters[i] = passed[i]
        /\ Len(parameters) = Len(passed) + (IF HasKey(passed, SignatureKey) THEN 0 ELSE 1)

C8_Witness ==
    /\ op = "request" /\ ret.t = "returned" /\ Len(passed) = 2
    /\ ~HasKey(passed, SignatureKey)
    /\ "?" \in Range(url_without_sesssion_signature)

\* C9: the checksum in every signature is crc32(unsigned path, crc32(nonce8,
\* seed)), the seed being that of the client's session: the nonce first, the
\* path second.
C9_ChecksumChain ==
    Signed =>
        LET sig == DictGet(parameters, SignatureKey)
            sum == crc32(url_without_sesssion_signature,
                         crc32(nonce, ParseHexWord(session.secretSeed)))
        IN  /\ crc = sum
            /\ SubSeq(sig, Len(sig) - 7, Len(sig)) = to_hex8_str(sum)

C9_Witness ==
    /\ op = "add_session_signature" /\ ret.t = "returned"
    /\ passed # <<>> /\ nonce[8] = "1"
    /\ crc # crc32(nonce, crc32(url_without_sesssion_signature,
                                ParseHexWord(session.secretSeed)))

IsHex8(s) == Len(s) = 8 /\ \A i \in DOMAIN s : s[i] \in Range(HexDigits)

\* C10: every session_signature is the session's hexadecimal id, nonce8 and
\* the 8 hexadecimal characters of the checksum, in this order with nothing
\* between; nonce8 and the checksum field are 8 uppercase hexadecimal
\* characters each, so the signature is len(id_hex) + 16 long.
C10_SignatureLayout ==
    Signed =>
        LET sig == DictGet(parameters, SignatureKey)
            idh == id_hex(session)
        IN  /\ Len(sig) = Len(idh) + 16
            /\ SubSeq(sig, 1, Len(idh)) = idh
            /\ SubSeq(sig, Len(idh) + 1, Len(idh) + 8) = nonce
            /\ SubSeq(sig, Len(idh) + 9, Len(idh) + 16) = to_hex8_str(crc)
            /\ IsHex8(nonce)
            /\ IsHex8(SubSeq(sig, Len(idh) + 9, Len(idh) + 16))

C10_Witness ==
    /\ op = "post" /\ ret.t = "returned"
    /\ session.id > 1 /\ nonce[8] = "1"
    /\ Len(DictGet(parameters, SignatureKey)) = 24

\* The session_signature the call left in the mapping.
SignatureOut == DictGet(parameters, SignatureKey)

\* C11: two sign calls on the same session, root and method, the second with a
\* mapping equal to the first's that no sign has touched: when both clock
\* readings are in the same window (equal reading >> 8) the signatures are the
\* same; when the windows differ, the nonce8 differs.
C11_SameWindowSameSignature ==
    [][(/\ Signed /\ Signed'
        /\ session' = session /\ root' = root /\ method' = method
        /\ passed' = passed /\ passed' \in ParameterChoices)
       => /\ (tick_count' \div 256 = tick_count \div 256 =>
                DictGet(parameters', SignatureKey) = SignatureOut)
          /\ (tick_count' \div 256 # tick_count \div 256 => nonce' # nonce)]_vars

\* A second reading in the window of the first one, signed.
C11_Witness ==
    /\ Signed /\ op = "add_session_signature" /\ passed # <<>>
    /\ passed \in ParameterChoices
    /\ \E t0 \in InitialTicks : tick_count > t0 /\ tick_count \div 256 = t0 \div 256

\* The keys of a mapping.
Keys(d) == {d[i][1] : i \in DOMAIN d}

\* C12: a sign that returned has changed the mapping it was passed only at the
\* key session_signature, now the new signature: the keys are those passed and
\* session_signature, each once, and every other key has the value passed. The
\* call changes neither the client's root, base_url and session nor the
\* Session's id and seed.
C12_SignChangesOnlyTheSignatureKey ==
    /\ [](Signed =>
            /\ Keys(parameters) = Keys(passed) \cup {SignatureKey}
            /\ Cardinality(Keys(parameters)) = Len(parameters)
            /\ \A k \in Keys(passed) \ {SignatureKey} :
                  DictGet(parameters, k) = DictGet(passed, k)
            /\ SignatureOut = id_hex(session) \o nonce \o to_hex8_str(crc))
    /\ [][(op' \in SignOps /\ <<op, ret, http, signVars>>' # <<op, ret, http, signVars>>)
            => /\ root' = root /\ base_url' = base_url
               /\ session' = session]_vars

\* A mapping passed with two other keys and an old session_signature.
C12_Witness ==
    /\ Signed /\ op = "add_session_signature"
    /\ HasKey(passed, SignatureKey) /\ Len(passed) = 2
    /\ DictGet(passed, SignatureKey) # SignatureOut
    /\ DictGet(parameters, <<"a">>) = <<"1">>

\* Clock readings over the range of the unsigned 32-bit clock the integers
\* here reach: the ends of blocks of 256 ticks, and of the range.
ClockReadings ==
    {0, 255, 256, 511, 65535, 65536, 16777215, 16777216, 2147483392, 2147483647}

\* Order of two 32-bit words.
WordLE(x, y) == x[1] < y[1] \/ (x[1] = y[1] /\ x[2] <= y[2])

\* C14: the nonce8 of a sign is 8 uppercase hexadecimal characters that denote
\* the clock reading shifted right by 8 bits; two readings give the same nonce8
\* exactly when they are in the same block of 256 ticks; and from one sign call
\* to the next the nonce8 never decreases.
C14_NonceIsTheTickWindow ==
    /\ [](/\ Signed =>
               /\ IsHex8(nonce)
               /\ ParseHexWord(nonce) = <<(tick_count \div 256) \div 65536,
                                          (tick_count \div 256) % 65536>>
          /\ \A r1, r2 \in ClockReadings :
                /\ IsHex8(Nonce8(r1))
                /\ (r1 \div 256 = r2 \div 256) <=> (Nonce8(r1) = Nonce8(r2)))
    /\ [][(Signed /\ Signed') =>
            /\ tick_count <= tick_count'
            /\ WordLE(ParseHexWord(nonce), ParseHexWord(nonce'))
            /\ (tick_count' \div 256 = tick_count \div 256) <=> (nonce' = nonce)]_vars

\* A sign whose reading is past the first block of 256 ticks.
C14_Witness ==
    /\ Signed /\ op = "xget"
    /\ tick_count \div 256 > 0 /\ ParseHexWord(nonce) = <<0, tick_count \div 256>>

\* C15: to_hex8_str gives, for every unsigned 32-bit value, exactly 8 uppercase
\* hexadecimal characters, zero-padded, that denote the value: "00000000" for
\* 0, "000000FF" for 255, "FFFFFFFF" for 4294967295; and no other value has the
\* same encoding.
C15_Hex8TotalAndInjective ==
    op = "to_hex8_str" =>
        /\ IsHex8(nonce)
        /\ ParseHexWord(nonce) = crc
        /\ (crc = <<0, 0>> => nonce = <<"0","0","0","0","0","0","0","0">>)
        /\ (crc = <<0, 255>> => nonce = <<"0","0","0","0","0","0","F","F">>)
        /\ (crc = <<65535, 65535>> => nonce = <<"F","F","F","F","F","F","F","F">>)
        /\ \A w \in HexInputs : w # crc => to_hex8_str(w) # nonce

\* 255 encoded: six zeros of padding.
C15_Witness ==
    op = "to_hex8_str" /\ crc = <<0, 255>> /\ nonce[7] = "F" /\ nonce[1] = "0"

\* The five inputs of the login hash in this state.
HashInputsNow == <<root, server_nonce, client_nonce, user, password_hash>>

\* C16: the login hash is the digest of root, server nonce, client nonce, user
\* and password hash joined in this order with nothing between; the same five
\* strings give the same hash; and five strings that differ from them in
\* exactly one place give another digested byte sequence (the digest here
\* stands for the bytes it was given, so another hash).
C16_LoginHashOfFiveInOrder ==
    op = "LoginHash" =>
        /\ sha256password = sha256_hexdigest_upper(
                root \o server_nonce \o client_nonce \o user \o password_hash)
        /\ \A t \in HashTuples :
              LET h == LoginHash(t[1], t[2], t[3], t[4], t[5])
              IN  /\ (t = HashInputsNow => h = sha256password)
                  /\ (Cardinality({i \in 1..5 : t[i] # HashInputsNow[i]}) = 1
                        => h # sha256password)

\* A hash that two changed inputs leave the same: "rA" + "B" against "r" + "AB".
C16_Witness ==
    /\ op = "LoginHash" /\ root = <<"r","A">> /\ server_nonce = <<"B">>
    /\ \E t \in HashTuples :
          /\ t[1] = <<"r">> /\ t[2] = <<"A","B">>
          /\ LoginHash(t[1], t[2], t[3], t[4], t[5]) = sha256password

\* C17: a login that a status other than 200 rejects on a client that has a
\* session returns None and leaves self.session the Session it was; the next
\* sign is made of that Session's id and seed; and self.session changes only
\* in a login step that takes a status 200 with a session id, to the Session
\* that login returns.
C17_RejectedLoginKeepsSession ==
    [][/\ \A reply \in CredentialsReplies :
            (session # None /\ ReplyRejects(reply) /\ CredentialsResponse(reply)) =>
                session' = session /\ ret' = Returned(None)
       /\ (session' # session =>
             /\ \E reply \in CredentialsReplies :
                   ReplyGrants(reply) /\ CredentialsResponse(reply)
             /\ ret' = Returned(session'))
       /\ (op = "login" /\ ret = Returned(None) /\ session # None /\ Signed') =>
             LET sig == DictGet(parameters', SignatureKey)
             IN  /\ session' = session
                 /\ SubSeq(sig, 1, Len(sig) - 16) = to_hex8_str(Word(session.id))
                 /\ crc' = crc32(url_without_sesssion_signature',
                                 crc32(nonce', ParseHexWord(session.secretSeed)))]_vars

\* A login with another password hash than the session's seed, rejected.
C17_Witness ==
    /\ session # None /\ op = "login" /\ pc = "idle" /\ ret = Returned(None)
    /\ Len(http) = 2 /\ session.secretSeed # password_hash

\* C18: a sign call that is passed again the mapping the previous sign call
\* left (the same method and session, a clock reading in the same window)
\* checksums the same unsigned path, the old session_signature taking no part
\* in it, and so leaves the same session_signature and gives the same signed
\* path.
C18_ResignSameSignature ==
    [][(/\ Signed /\ Signed'
        /\ passed' = parameters /\ resigns' = resigns + 1
        /\ method' = method /\ session' = session
        /\ tick_count' \div 256 = tick_count \div 256)
       => /\ url_without_sesssion_signature' = url_without_sesssion_signature
          /\ SignatureOut' = SignatureOut
          /\ SignedPathOut' = SignedPathOut]_vars

\* The caller's mapping is passed by no other caller.
Private(c) == \A c2 \in DOMAIN frames : c2 # c => frames[c2].map # frames[c].map

\* A caller's call has returned a signed path.
Returns(c) == frames[c].pc = "done" /\ frames[c].ret.t = "returned"

\* The session_signature in the path returned to the caller.
SignatureSent(c) == DictGet(frames[c].sent, SignatureKey)

\* The unsigned path of the caller's call: of the method and the mapping as the
\* caller passed them.
OwnUnsignedPath(c) ==
    IF frames[c].passed = <<>> THEN root \o <<"/">> \o frames[c].method
    ELSE root \o <<"/">> \o frames[c].method \o <<"?">> \o urlencode(frames[c].passed)

\* The 8 digits of the checksum of path u under nonce8 n and the session's seed.
ChecksumDigits(n, u) == to_hex8_str(crc32(u, crc32(n, ParseHexWord(session.secretSeed))))

\* C13: with callers signing at the same time on one Session, every signed
\* path returned carries a well-formed signature: the session's id, the nonce8
\* of a clock reading some caller took, not after now, and 8 checksum digits.
\* A caller whose mapping no other caller passes gets the path of its own
\* mapping with the signature of its own nonce8 and of the checksum of its own
\* unsigned path. (That callers passing one mapping can get a signature made
\* for another path is the witness.)
C13_ConcurrentSigning ==
    \A c \in DOMAIN frames :
        Returns(c) =>
            LET f == frames[c]
                sig == SignatureSent(c)
                idh == id_hex(session)
            IN  /\ f.ret.value.s =
                      root \o <<"/">> \o f.method \o <<"?">> \o urlencode(f.sent)
                /\ Len(sig) = Len(idh) + 16
                /\ SubSeq(sig, 1, Len(idh)) = idh
                /\ IsHex8(SubSeq(sig, Len(idh) + 9, Len(idh) + 16))
                /\ \E c2 \in DOMAIN frames :
                      /\ frames[c2].tick_count # NoReading
                      /\ frames[c2].tick_count <= tick
                      /\ SubSeq(sig, Len(idh) + 1, Len(idh) + 8) =
                            to_hex8_str(Word(frames[c2].tick_count \div 256))
                /\ Private(c) =>
                      /\ Keys(f.sent) = Keys(f.passed) \cup {SignatureKey}
                      /\ \A k \in Keys(f.passed) \ {SignatureKey} :
                            DictGet(f.sent, k) = DictGet(f.passed, k)
                      /\ f.nonce = to_hex8_str(Word(f.tick_count \div 256))
                      /\ sig = idh \o f.nonce \o ChecksumDigits(f.nonce, OwnUnsignedPath(c))

\* Two callers pass one mapping, and one gets back a path whose signature is
\* not the one of its unsigned path: not under its own nonce8, nor under the
\* nonce8 the signature carries.
C13_Witness ==
    \E c \in DOMAIN frames :
        /\ Returns(c) /\ ~Private(c)
        /\ LET sig == SignatureSent(c)
               n == Len(sig)
           IN  /\ SubSeq(sig, n - 7, n) # ChecksumDigits(frames[c].nonce, OwnUnsignedPath(c))
               /\ SubSeq(sig, n - 7, n) #
                     ChecksumDigits(SubSeq(sig, n - 15, n - 8), OwnUnsignedPath(c))

\* C19: the signature in every signed path returned is made of one Session
\* that self.session held during the call: its id in front, and the checksum
\* seeded with its seed, also when a login stores a new Session in the field
\* between two statements of the call.
C19_SignatureOfOneSession ==
    \A c \in DOMAIN frames :
        Returns(c) =>
            LET f == frames[c]
                sig == SignatureSent(c)
                n == Len(sig)
            IN  \E s \in {f.session98, f.session100, f.session104} :
                    /\ SubSeq(sig, 1, n - 16) = to_hex8_str(Word(s.id))
                    /\ SubSeq(sig, n - 7, n) =
                          to_hex8_str(crc32(f.url_without_sesssion_signature,
                                            crc32(f.nonce, ParseHexWord(s.secretSeed))))

====
